---- MODULE Spec2Model ----
(***************************************************************************)
(* A model of the YouTube downloader: the command-line flow of             *)
(* downloader.py and the Streamlit flow of app.py.                         *)
(*                                                                         *)
(*   - the format catalog (get_available_formats) and the mapping from a   *)
(*     display index to a format id (display_formats_and_select, and the   *)
(*     selectbox code of app.main);                                        *)
(*   - the file-collision handling of download_with_yt_dlp and of          *)
(*     download_with_streamlit, the latter driven by Streamlit reruns      *)
(*     with its decision kept in st.session_state.                         *)
(***************************************************************************)
EXTENDS Integers, Sequences, FiniteSets, TLC

(***************************************************************************)
(* Bounds of the model.                                                    *)
(***************************************************************************)
\* longest list of raw stream descriptors returned by extract_info
MaxRaw == 3
\* longest line typed at the "Select format number" prompt
MaxInputLen == 2
\* last second of the clock read by time.time()
MaxClock == 1

(***************************************************************************)
(* Values.                                                                 *)
(***************************************************************************)
BEST_VIDEO == "best[ext=mp4]"
BEST_AUDIO == "bestaudio[ext=mp3]/bestaudio"

\* codecs and containers of the raw descriptors ("none" is yt-dlp's marker
\* for an absent track)
VCodecs == {"none", "avc1"}
ACodecs == {"none", "mp4a"}
Exts == {"mp3", "webm"}

\* a raw descriptor f of info['formats']; its format_id is its position
RawDescriptors == [vcodec : VCodecs, acodec : ACodecs, ext : Exts]

RECURSIVE SeqsUpTo(_, _)
SeqsUpTo(S, n) ==
    IF n = 0 THEN {<<>>}
    ELSE LET shorter == SeqsUpTo(S, n - 1)
         IN  shorter \cup {Append(s, x) : s \in {t \in shorter : Len(t) = n - 1}, x \in S}

RawLists == SeqsUpTo(RawDescriptors, MaxRaw)

\* format_id of the descriptor at position i of the raw list ("101", ...)
FormatIdAt(i) == ToString(100 + i)

(***************************************************************************)
(* get_available_formats: the catalog built from the raw descriptors.      *)
(***************************************************************************)
\* the mutant of SkipFormat that skips nothing
SkipFormatNever(vcodec, acodec, ext) ==
    FALSE

\* line 56: if vcodec == 'none' and not (acodec != 'none' and ext == 'mp3'): continue
SkipFormat(vcodec, acodec, ext) ==
    vcodec = "none" /\ ~(acodec # "none" /\ ext = "mp3")

\* lines 60-68: the format_info dictionary (the display-only fields
\* resolution, fps and filesize are left out); src is the position of the
\* descriptor in the raw list
FormatInfo(raw, i) ==
    [format_id |-> FormatIdAt(i),
     ext       |-> raw[i].ext,
     has_video |-> raw[i].vcodec # "none",
     has_audio |-> raw[i].acodec # "none",
     src       |-> i]

RECURSIVE BuildFormats(_, _)
\* lines 44-70: the loop over info['formats'], from position i on
BuildFormats(raw, i) ==
    IF i > Len(raw) THEN <<>>
    ELSE IF SkipFormat(raw[i].vcodec, raw[i].acodec, raw[i].ext)
         THEN BuildFormats(raw, i + 1)
         ELSE <<FormatInfo(raw, i)>> \o BuildFormats(raw, i + 1)

\* the outcome of ydl.extract_info(url, download=False): the raw list, or
\* an exception (network failure, unavailable video, malformed URL)
ExtractFailure == [ok |-> FALSE, formats |-> <<>>]
Extracted(raw) == [ok |-> TRUE, formats |-> raw]

\* the return value None of get_available_formats and of
\* display_formats_and_select
NoFormatsInfo == [ok |-> FALSE, formats |-> <<>>]
NoFormat == "None"

\* get_available_formats(url): None when extract_info raises (lines 74-76),
\* else the dictionary with the list of format_info dictionaries (line 72)
get_available_formats(info) ==
    IF ~info.ok THEN NoFormatsInfo
    ELSE [ok |-> TRUE, formats |-> BuildFormats(info.formats, 1)]

(***************************************************************************)
(* The partition into video and audio formats and the display indices.     *)
(***************************************************************************)
IsVideoFormat(fmt) == fmt.has_video
IsAudioFormat(fmt) == fmt.has_audio /\ ~fmt.has_video

\* downloader.py lines 92-96, app.py line 84
video_formats(formats) == SelectSeq(formats, IsVideoFormat)
\* downloader.py lines 92-96, app.py line 85
audio_formats(formats) == SelectSeq(formats, IsAudioFormat)

\* the mutant of best_idx that counts the video formats only
best_idx_video_only(formats) == Len(video_formats(formats))

\* downloader.py line 112, app.py lines 120 and 163: len(formats)
best_idx(formats) == Len(formats)

\* downloader.py line 115, app.py lines 130 and 165
best_audio_idx(formats) == best_idx(formats) + 1

\* The table printed by display_formats_and_select (lines 99-116) and built
\* as format_data by app.main (lines 91-137): the rows in print order, each
\* with the index shown in its ID column.
DisplayRows(formats) ==
    LET v == video_formats(formats)
        a == audio_formats(formats)
    IN  [i \in 1..Len(v) |-> [id |-> i - 1, kind |-> "video", format_id |-> v[i].format_id]]
        \o [i \in 1..Len(a) |-> [id |-> (i - 1) + Len(v), kind |-> "audio",
                                  format_id |-> a[i].format_id]]
        \o <<[id |-> best_idx(formats), kind |-> "best", format_id |-> "best"],
             [id |-> best_audio_idx(formats), kind |-> "bestaudio", format_id |-> "bestaudio"]>>

(***************************************************************************)
(* display_formats_and_select: the typed line and the format it selects.   *)
(***************************************************************************)
Digits == {"0", "1", "2", "3", "4"}
InputChars == Digits \cup {" ", "-", "x"}
InputLines == SeqsUpTo(InputChars, MaxInputLen)

DigitValue(c) ==
    CASE c = "0" -> 0 [] c = "1" -> 1 [] c = "2" -> 2 [] c = "3" -> 3 [] c = "4" -> 4

RECURSIVE LStrip(_)
LStrip(s) == IF s # <<>> /\ Head(s) = " " THEN LStrip(Tail(s)) ELSE s

RECURSIVE RStrip(_)
RStrip(s) == IF s # <<>> /\ s[Len(s)] = " " THEN RStrip(SubSeq(s, 1, Len(s) - 1)) ELSE s

\* str.strip()
Strip(s) == RStrip(LStrip(s))

RECURSIVE DigitsValue(_, _)
DigitsValue(s, acc) ==
    IF s = <<>> THEN acc ELSE DigitsValue(Tail(s), 10 * acc + DigitValue(Head(s)))

AllDigits(s) == s # <<>> /\ \A i \in 1..Len(s) : s[i] \in Digits

\* int(selection): the integer written in s, or ValueError
ValueError == [ok |-> FALSE, value |-> 0]
ParseInt(s) ==
    LET t == Strip(s)
    IN  IF AllDigits(t) THEN [ok |-> TRUE, value |-> DigitsValue(t, 0)]
        ELSE IF t # <<>> /\ Head(t) = "-" /\ AllDigits(Tail(t))
             THEN [ok |-> TRUE, value |-> 0 - DigitsValue(Tail(t), 0)]
        ELSE ValueError

\* lst[i]['format_id'] of a Python list: a negative i counts from the end,
\* an i outside [-len, len) raises IndexError
IndexError == "IndexError"
FormatIdOf(lst, i) ==
    IF 0 <= i /\ i < Len(lst) THEN lst[i + 1].format_id
    ELSE IF 0 - Len(lst) <= i /\ i < 0 THEN lst[Len(lst) + i + 1].format_id
    ELSE IndexError

\* lines 126-141: the chain of range tests on idx
SelectByIndex(formats, idx) ==
    LET v == video_formats(formats)
        a == audio_formats(formats)
    IN  IF 0 <= idx /\ idx < Len(v) THEN FormatIdOf(v, idx)
        ELSE IF Len(v) <= idx /\ idx < Len(formats) THEN FormatIdOf(a, idx - Len(v))
        ELSE IF idx = best_idx(formats) THEN BEST_VIDEO
        ELSE IF idx = best_audio_idx(formats) THEN BEST_AUDIO
        ELSE BEST_VIDEO

\* display_formats_and_select(formats_info) with the line typed at input():
\* lines 80-81, 122-125 and 143-145 around the range tests
display_formats_and_select(formats_info, line) ==
    IF ~formats_info.ok THEN NoFormat
    ELSE IF Strip(line) = <<>> THEN BEST_VIDEO
    ELSE IF ~ParseInt(line).ok THEN BEST_VIDEO
    ELSE SelectByIndex(formats_info.formats, ParseInt(line).value)

\* app.py line 157: the options of the selectbox, range(len(format_options))
SelectboxOptions(formats) == 0..(Len(DisplayRows(formats)) - 1)

\* app.py lines 163-172: the format id of the chosen selectbox option
AppFormatId(formats, selected_format_idx) ==
    LET v == video_formats(formats)
        a == audio_formats(formats)
    IN  IF selected_format_idx = best_idx(formats) THEN BEST_VIDEO
        ELSE IF selected_format_idx = best_audio_idx(formats) THEN BEST_AUDIO
        ELSE IF selected_format_idx < Len(v) THEN FormatIdOf(v, selected_format_idx)
        ELSE FormatIdOf(a, selected_format_idx - Len(v))

(***************************************************************************)
(* Videos, titles and files.                                               *)
(***************************************************************************)
URLs == {"urlA", "urlB"}
\* the empty URL field of the page
NoUrl == ""

\* info.get('title') for each URL
RawTitle(u) == IF u = "urlA" THEN <<"a">> ELSE <<"b">>

\* info.get('formats') for each URL
RawFormatsOf(u) ==
    IF u = "urlA"
    THEN <<[vcodec |-> "avc1", acodec |-> "mp4a", ext |-> "webm"],
           [vcodec |-> "none", acodec |-> "mp4a", ext |-> "webm"]>>
    ELSE <<[vcodec |-> "none", acodec |-> "mp4a", ext |-> "mp3"]>>

\* .replace('/', '_').replace('\\', '_')  (downloader.py line 168, app.py line 190)
Sanitize(title) ==
    [i \in 1..Len(title) |-> IF title[i] \in {"/", "\\"} THEN "_" ELSE title[i]]

\* a base name: a title, and the timestamp appended to it (NoTs: none)
NoTs == -1
BaseName(title) == [title |-> title, ts |-> NoTs]
Stamped(title, t) == [title |-> title, ts |-> t]
\* None as the value of new_filename
NoName == [title |-> <<>>, ts |-> NoTs]
NoTitle == <<>>

\* os.path.join(output_path, f"{base}.{ext}")
File(base, ext) == [title |-> base.title, ts |-> base.ts, ext |-> ext]

Titles == {Sanitize(RawTitle(u)) : u \in URLs}
\* the files that may be in the download directory before the program runs
PlainFiles == {File(BaseName(t), e) : t \in Titles, e \in {"mp4", "mp3"}}

\* 'bestaudio' in format_id, and 'mp3' in format_id, over the format ids
\* of the model
ContainsBestaudio(format_id) == format_id \in {BEST_AUDIO, "bestaudio"}
ContainsMp3(format_id) == format_id = BEST_AUDIO

\* 'bestaudio' in format_id and 'mp3' in format_id
\* (downloader.py line 196, app.py lines 262 and 349)
IsMp3Request(format_id) == ContainsBestaudio(format_id) /\ ContainsMp3(format_id)

\* the extension of the file the download writes: mp3 after audio
\* extraction, mp4 for best[ext=mp4], else the container of the format
WrittenExt(u, format_id) ==
    IF IsMp3Request(format_id) THEN "mp3"
    ELSE IF format_id = BEST_VIDEO THEN "mp4"
    ELSE LET raw == RawFormatsOf(u)
             i == CHOOSE i \in 1..Len(raw) : FormatIdAt(i) = format_id
         IN  raw[i].ext

(***************************************************************************)
(* State.                                                                  *)
(***************************************************************************)
VARIABLES
    program,             \* the entry point that was started: app.py or downloader.py
    ss,                  \* st.session_state: file_decision_made, file_decision, new_filename
    url,                 \* the URL text field of the page
    force_download,      \* the "Force Re-download" checkbox
    selected_format_idx, \* the format selectbox
    prompt,              \* the three decision buttons shown by the last script run
    decided_for,         \* the title whose prompt the pending decision was clicked on
    files,               \* the files of the download directory (unstamped names)
    mtime,               \* the modification time of each Title.mp4, in whole seconds
    clock,               \* int(time.time())
    cli,                 \* the command-line process: where it waits, and its locals
    att,                 \* what the last step of either surface did
    query,               \* a catalog query: raw descriptors, catalog, selection
    progress,            \* a transfer: the last progress event and what the hook showed
    main                 \* main() of downloader.py: the URL list, the loop and its counter

vars == <<program, ss, url, force_download, selected_format_idx, prompt, decided_for,
          files, mtime, clock, cli, att, query, progress, main>>

\* the variables of the other flows, which the page and the command-line
\* download leave alone
auxVars == <<progress, main>>

webVars == <<ss, url, force_download, selected_format_idx, prompt, decided_for>>

\* app.py lines 15-20, and lines 240-242 and 246-248
ClearedState == [file_decision_made |-> FALSE, file_decision |-> "None", new_filename |-> NoName]

NoPrompt == [shown |-> FALSE, title |-> NoTitle]

CliIdle == [pc |-> "idle", url |-> NoUrl, force |-> FALSE, format_id |-> NoFormat, timestamp |-> NoTs]

NoAttempt ==
    [event |-> "none", title |-> NoTitle, mp4 |-> FALSE, mp3 |-> FALSE, force |-> FALSE,
     made |-> FALSE, decision |-> "None", pending_for |-> NoTitle, outcome |-> "none", base |-> NoName,
     overwrites |-> FALSE, format_id |-> NoFormat, started |-> FALSE, ret |-> "none"]

QueryIdle ==
    [pc |-> "idle", info |-> ExtractFailure, formats_info |-> NoFormatsInfo,
     surface |-> "none", line |-> <<>>, idx |-> 0, format_id |-> NoFormat]

\* the catalog app.main builds for the URL of the page (lines 73-85)
PageFormats(u) == get_available_formats(Extracted(RawFormatsOf(u))).formats

(***************************************************************************)
(* The Streamlit page (app.py).  Every widget interaction reruns the       *)
(* script from the top; a button is True only in the run its click         *)
(* started, and an on_click callback runs before that run.                 *)
(***************************************************************************)
\* app.py lines 193-195: file_exists
FileExistsApp(fs, video_title) ==
    \/ File(BaseName(video_title), "mp4") \in fs
    \/ File(BaseName(video_title), "mp3") \in fs

\* the test of line 198 as a variant that does not look at the stored decision
MustAskAlways(file_exists, force, state) == file_exists /\ ~force

\* app.py line 198: the test that shows the three buttons and stops
MustAsk(file_exists, force, state) ==
    file_exists /\ ~force /\ ~state.file_decision_made

\* the mutant of SkipDecided that never returns early
SkipDecidedNever(state) == FALSE

\* app.py lines 230 and 237: the skip branch, which returns at line 243
SkipDecided(state) ==
    state.file_decision_made /\ state.file_decision = "skip"

\* app.py lines 231-232: force as passed to yt-dlp ('overwrites': force)
ForceAfterDecision(force, state) ==
    IF state.file_decision_made /\ state.file_decision = "redownload" THEN TRUE ELSE force

\* app.py lines 234-235 and 253: the base name of outtmpl
TitleAfterDecision(video_title, state) ==
    IF state.file_decision_made /\ state.file_decision = "new_name"
    THEN state.new_filename
    ELSE BaseName(video_title)

\* the files after ydl.download / extract_info(download=True) writes target
\* (ok), or raises (~ok).  The variable files holds the names the program
\* tests with os.path.exists before a download, the unstamped ones; a file
\* written under a stamped name is told by att.base and att.ret.
AfterDownload(fs, target, ok) ==
    IF ok /\ target.ts = NoTs THEN fs \cup {target} ELSE fs

\* the files whose modification time is followed: the Title.mp4 of each video
TimedFiles == {File(BaseName(t), "mp4") : t \in Titles}

\* the modification times after that download, at second now: the file is
\* written when it was not there or 'overwrites' is set, and left as it is
\* otherwise
MtimeAfter(mt, fs, target, ok, overwrites, now) ==
    IF ok /\ target \in TimedFiles /\ (target \notin fs \/ overwrites)
    THEN [mt EXCEPT ![target] = now]
    ELSE mt

\* the modification times of the files found at the start: none is later
\* than the first second of the run
NoMtimes == [f \in TimedFiles |-> NoTs]
InitialMtimes(fs) == [f \in TimedFiles |-> IF f \in fs THEN 0 ELSE NoTs]

\* a script run in which the Download button is not True: main() draws the
\* page and download_with_streamlit is not called (lines 177-178), so the
\* decision buttons of the previous run are gone
PlainRerun ==
    /\ prompt' = NoPrompt
    /\ att' = [NoAttempt EXCEPT !.event = "rerun"]
    /\ UNCHANGED <<program, files, mtime, clock, cli, query, auxVars>>

\* app.py line 63: the user types another URL
ChangeUrl(u) ==
    /\ program = "app"
    /\ u # url
    /\ url' = u
    \* line 159: a new selectbox starts at index=len(formats); one whose
    \* options are those of the last run keeps its value
    /\ selected_format_idx' \in
          IF u = NoUrl THEN {0}
          ELSE IF url = NoUrl THEN {best_idx(PageFormats(u))}
          ELSE {best_idx(PageFormats(u))}
                 \cup ({selected_format_idx} \cap SelectboxOptions(PageFormats(u)))
    /\ PlainRerun
    /\ UNCHANGED <<ss, force_download, decided_for>>

\* app.py lines 59-60 and 73-76: a run started by another widget (the
\* slider, the audio quality), or by a Download click when
\* get_available_formats returns None
OtherRerun ==
    /\ program = "app"
    /\ PlainRerun
    /\ UNCHANGED <<ss, url, force_download, selected_format_idx, decided_for>>

\* app.py line 55: the user ticks or unticks "Force Re-download"
ToggleForce ==
    /\ program = "app"
    /\ force_download' = ~force_download
    /\ PlainRerun
    /\ UNCHANGED <<ss, url, selected_format_idx, decided_for>>

\* app.py lines 155-160: the user picks another row of the selectbox
SelectFormat(i) ==
    /\ program = "app"
    /\ url # NoUrl
    /\ i \in SelectboxOptions(PageFormats(url))
    /\ i # selected_format_idx
    /\ selected_format_idx' = i
    /\ PlainRerun
    /\ UNCHANGED <<ss, url, force_download, decided_for>>

\* download_with_streamlit(url, output_path, format_id, force, ...),
\* lines 183-371; info_ok: extract_info of line 189 returns, dl_ok: the
\* download of line 346 returns
download_with_streamlit(u, format_id, force, info_ok, dl_ok) ==
    LET video_title == Sanitize(RawTitle(u))
        file_exists == FileExistsApp(files, video_title)
        entry == [NoAttempt EXCEPT
                    !.event = "web_download", !.title = video_title,
                    !.mp4 = File(BaseName(video_title), "mp4") \in files,
                    !.mp3 = File(BaseName(video_title), "mp3") \in files,
                    !.force = force, !.made = ss.file_decision_made,
                    !.decision = ss.file_decision, !.pending_for = decided_for,
                    !.format_id = format_id]
        force2 == ForceAfterDecision(force, ss)
        base == TitleAfterDecision(video_title, ss)
        target == File(base, WrittenExt(u, format_id))
    IN  IF ~info_ok
        THEN \* lines 369-371: the exception is shown
             /\ att' = [entry EXCEPT !.outcome = "error", !.ret = "error"]
             /\ prompt' = NoPrompt
             /\ UNCHANGED <<ss, decided_for, files, mtime>>
        ELSE IF MustAsk(file_exists, force, ss)
        THEN \* lines 199-227: the buttons are drawn and the run stops
             /\ att' = [entry EXCEPT !.outcome = "prompt"]
             /\ prompt' = [shown |-> TRUE, title |-> video_title]
             /\ UNCHANGED <<ss, decided_for, files, mtime>>
        ELSE IF SkipDecided(ss)
        THEN \* lines 237-243
             /\ att' = [entry EXCEPT !.outcome = "skip", !.ret = "skipped"]
             /\ ss' = ClearedState
             /\ decided_for' = NoTitle
             /\ prompt' = NoPrompt
             /\ UNCHANGED <<files, mtime>>
        ELSE \* lines 245-367
             /\ att' = [entry EXCEPT !.outcome = "download", !.base = base,
                                     !.overwrites = force2, !.started = TRUE,
                                     !.ret = IF dl_ok THEN "done" ELSE "error"]
             /\ ss' = ClearedState
             /\ decided_for' = NoTitle
             /\ prompt' = NoPrompt
             /\ files' = AfterDownload(files, target, dl_ok)
             /\ mtime' = MtimeAfter(mtime, files, target, dl_ok, force2, clock)

\* app.py lines 69-178: the run started by a click on "Download"
ClickDownload ==
    /\ program = "app"
    /\ url # NoUrl
    /\ \E info_ok \in BOOLEAN, dl_ok \in BOOLEAN :
          download_with_streamlit(url,
                                  AppFormatId(PageFormats(url), selected_format_idx),
                                  force_download, info_ok, dl_ok)
    /\ UNCHANGED <<program, url, force_download, selected_format_idx, clock, cli, query, auxVars>>

\* app.py lines 205-207
on_redownload(state) ==
    [state EXCEPT !.file_decision_made = TRUE, !.file_decision = "redownload"]

\* app.py lines 209-212; video_title is the title of the run that drew the button
on_new_name(state, video_title, now) ==
    [state EXCEPT !.file_decision_made = TRUE, !.file_decision = "new_name",
                  !.new_filename = Stamped(video_title, now)]

\* app.py lines 214-216
on_skip(state) ==
    [state EXCEPT !.file_decision_made = TRUE, !.file_decision = "skip"]

\* the callback of the clicked decision button
Callback(choice, state, video_title, now) ==
    CASE choice = "redownload" -> on_redownload(state)
      [] choice = "new_name"   -> on_new_name(state, video_title, now)
      [] choice = "skip"       -> on_skip(state)

Choices == {"redownload", "new_name", "skip"}

\* app.py lines 220-224, then lines 33-178: a click on one of the three
\* buttons runs its callback, and the script reruns with the Download
\* button False
ClickDecision(choice) ==
    /\ program = "app"
    /\ prompt.shown
    /\ ss' = Callback(choice, ss, prompt.title, clock)
    /\ decided_for' = prompt.title
    /\ prompt' = NoPrompt
    /\ att' = [NoAttempt EXCEPT !.event = "decide", !.title = prompt.title,
                                !.decision = choice]
    /\ UNCHANGED <<program, url, force_download, selected_format_idx, files, mtime, clock, cli, query, auxVars>>

(***************************************************************************)
(* The command line (downloader.py).  download_with_yt_dlp waits at two    *)
(* input() calls: the format number (line 120) and the answer to "File     *)
(* already exists" (line 212).                                             *)
(***************************************************************************)
\* -f/--format values given on the command line; NoFormat: not given
CliFormatArgs == {NoFormat, "101"}

\* downloader.py lines 209-210: os.path.exists(potential_filename)
FileExistsCli(fs, video_title) ==
    File(BaseName(video_title), "mp4") \in fs

\* downloader.py lines 214-222: the else branch, which returns True
CliSkips(response) == response \notin {"y", "r"}

\* downloader.py lines 186-187 and 214-215: ydl_opts['overwrites']
CliOverwrites(force, response) == force \/ response = "y"

\* downloader.py lines 172, 178 and 216-218: outtmpl; %(title)s is filled
\* in by yt-dlp
CliOuttmpl(u, response, timestamp) ==
    IF response = "r" THEN Stamped(Sanitize(RawTitle(u)), timestamp)
    ELSE BaseName(Sanitize(RawTitle(u)))

\* what the call being made has seen so far
CliEntry(event, u, format_id, force) ==
    LET video_title == Sanitize(RawTitle(u))
    IN  [NoAttempt EXCEPT
           !.event = event, !.title = video_title,
           !.mp4 = File(BaseName(video_title), "mp4") \in files,
           !.mp3 = File(BaseName(video_title), "mp3") \in files,
           !.force = force, !.format_id = format_id]

\* downloader.py lines 224-244: the download, and the value returned
CliDownload(entry, u, format_id, force, response, timestamp, dl_ok) ==
    LET base == CliOuttmpl(u, response, timestamp)
    IN  /\ att' = [entry EXCEPT !.outcome = "download", !.base = base,
                                !.decision = response,
                                !.overwrites = CliOverwrites(force, response),
                                !.started = TRUE,
                                !.ret = IF dl_ok THEN "True" ELSE "False"]
        /\ files' = AfterDownload(files, File(base, WrittenExt(u, format_id)), dl_ok)
        /\ mtime' = MtimeAfter(mtime, files, File(base, WrittenExt(u, format_id)), dl_ok,
                                CliOverwrites(force, response), clock)
        /\ cli' = CliIdle

\* downloader.py lines 163-244, once format_id is known; info_ok:
\* extract_info of line 167 returns
CliPrepare(event, u, format_id, force, info_ok, dl_ok) ==
    LET video_title == Sanitize(RawTitle(u))
        entry == CliEntry(event, u, format_id, force)
    IN  IF ~info_ok
        THEN \* lines 242-244
             /\ att' = [entry EXCEPT !.outcome = "error", !.ret = "False"]
             /\ cli' = CliIdle
             /\ UNCHANGED <<files, mtime>>
        ELSE IF FileExistsCli(files, video_title) /\ ~force
        THEN \* lines 211-212: the question is asked
             /\ att' = [entry EXCEPT !.outcome = "prompt"]
             /\ cli' = [pc |-> "ask", url |-> u, force |-> force,
                        format_id |-> format_id, timestamp |-> clock]
             /\ UNCHANGED <<files, mtime>>
        ELSE CliDownload(entry, u, format_id, force, "none", clock, dl_ok)

\* download_with_yt_dlp(url, output_dir, args.format, args.best, args.force),
\* lines 147-163: up to the format prompt
download_with_yt_dlp(u, format_arg, auto_best, force) ==
    /\ cli.pc = "idle"
    /\ \E list_ok \in BOOLEAN, info_ok \in BOOLEAN, dl_ok \in BOOLEAN :
          IF auto_best
          THEN CliPrepare("cli_start", u, BEST_VIDEO, force, info_ok, dl_ok)
          ELSE IF format_arg # NoFormat
          THEN CliPrepare("cli_start", u, format_arg, force, info_ok, dl_ok)
          ELSE IF ~list_ok
          THEN \* lines 155-158: get_available_formats returned None
               /\ att' = [CliEntry("cli_start", u, NoFormat, force) EXCEPT
                            !.outcome = "error", !.ret = "False"]
               /\ cli' = CliIdle
               /\ UNCHANGED <<files, mtime>>
          ELSE \* line 120: the table is printed and the number is asked
               /\ att' = [CliEntry("cli_start", u, NoFormat, force) EXCEPT
                            !.outcome = "select"]
               /\ cli' = [pc |-> "select", url |-> u, force |-> force,
                          format_id |-> NoFormat, timestamp |-> NoTs]
               /\ UNCHANGED <<files, mtime>>

\* one call of download_with_yt_dlp, as far as its first input() or its return
CliStart(u, format_arg, auto_best, force) ==
    /\ program = "cli"
    /\ main.pc = "idle"
    /\ download_with_yt_dlp(u, format_arg, auto_best, force)
    /\ UNCHANGED <<program, webVars, clock, query, auxVars>>

\* the lines typed at the format prompt
CliLines == {<<>>, <<"0">>, <<"1">>, <<"2">>, <<"x">>}

\* downloader.py lines 120-145, then 163-244: the format number is typed
FormatTyped(line) ==
    /\ cli.pc = "select"
    /\ \E info_ok \in BOOLEAN, dl_ok \in BOOLEAN :
          CliPrepare("cli_select", cli.url,
                     display_formats_and_select(
                         get_available_formats(Extracted(RawFormatsOf(cli.url))), line),
                     cli.force, info_ok, dl_ok)

CliSelect(line) ==
    /\ main.pc = "idle"
    /\ FormatTyped(line)
    /\ UNCHANGED <<program, webVars, clock, query, auxVars>>

\* the answers to "Do you want to re-download?", lowercased (line 212)
Responses == {"y", "r", "n"}

\* downloader.py lines 212-244: the answer is typed
AnswerTyped(response) ==
    /\ cli.pc = "ask"
    /\ \E dl_ok \in BOOLEAN :
          LET entry == [CliEntry("cli_answer", cli.url, cli.format_id, cli.force)
                          EXCEPT !.decision = response]
          IN  IF CliSkips(response)
              THEN \* lines 220-222
                   /\ att' = [entry EXCEPT !.outcome = "skip", !.ret = "True"]
                   /\ cli' = CliIdle
                   /\ UNCHANGED <<files, mtime>>
              ELSE CliDownload(entry, cli.url, cli.format_id, cli.force, response,
                               cli.timestamp, dl_ok)

CliAnswer(response) ==
    /\ main.pc = "idle"
    /\ AnswerTyped(response)
    /\ UNCHANGED <<program, webVars, clock, query, auxVars>>

(***************************************************************************)
(* main() of downloader.py: the loop over the URLs of the command line.    *)
(***************************************************************************)
\* the largest number of URLs on the command line
MaxUrls == 2

UrlLists == SeqsUpTo(URLs, MaxUrls)

\* the line printed after the loop (lines 290-291), NoReport when none is
NoReport == [shown |-> FALSE, success_count |-> 0, of |-> 0]
Report(success_count, urls) ==
    IF Len(urls) > 1
    THEN [shown |-> TRUE, success_count |-> success_count, of |-> Len(urls)]
    ELSE NoReport

\* main() is not running: the calls of the other flows are made one by one
MainIdle ==
    [pc |-> "idle", urls |-> <<>>, format |-> NoFormat, best |-> FALSE, force |-> FALSE,
     i |-> 1, success_count |-> 0, processed |-> <<>>, returns |-> <<>>,
     downloads |-> <<>>, report |-> NoReport]

\* the counter as a variant that counts every URL
CountEvery(success_count, ret) == success_count + 1

\* lines 287-288: if download_with_yt_dlp(...): success_count += 1
CountSuccess(success_count, ret) ==
    IF ret = "True" THEN success_count + 1 ELSE success_count

\* the loop after a step of the call for urls[i]: the call waits at an
\* input() (call.pc # "idle"), or it has returned a.ret and the loop goes on
\* to the next URL, or past the last one to the report
AfterStep(m, call, a, first) ==
    LET counted == IF first THEN Append(m.downloads, 0) ELSE m.downloads
        n == Len(counted)
        downloads == IF a.started THEN [counted EXCEPT ![n] = counted[n] + 1] ELSE counted
        seen == IF first THEN Append(m.processed, m.urls[m.i]) ELSE m.processed
    IN  IF call.pc # "idle"
        THEN [m EXCEPT !.processed = seen, !.downloads = downloads]
        ELSE LET success_count == CountSuccess(m.success_count, a.ret)
             IN  [m EXCEPT !.processed = seen, !.downloads = downloads,
                           !.returns = Append(m.returns, a.ret),
                           !.success_count = success_count,
                           !.i = m.i + 1,
                           !.pc = IF m.i = Len(m.urls) THEN "done" ELSE "loop",
                           !.report = IF m.i = Len(m.urls)
                                      THEN Report(success_count, m.urls) ELSE NoReport]

mainOther == <<program, webVars, clock, query, progress>>

\* lines 285-288: the loop calls download_with_yt_dlp for the next URL
MainCall ==
    /\ main.pc = "loop"
    /\ cli.pc = "idle"
    /\ download_with_yt_dlp(main.urls[main.i], main.format, main.best, main.force)
    /\ main' = AfterStep(main, cli', att', TRUE)
    /\ UNCHANGED mainOther

\* the format number is typed during the call
MainSelect(line) ==
    /\ main.pc = "loop"
    /\ FormatTyped(line)
    /\ main' = AfterStep(main, cli', att', FALSE)
    /\ UNCHANGED mainOther

\* the answer to "File already exists" is typed during the call
MainAnswer(response) ==
    /\ main.pc = "loop"
    /\ AnswerTyped(response)
    /\ main' = AfterStep(main, cli', att', FALSE)
    /\ UNCHANGED mainOther

(***************************************************************************)
(* The clock, and the specification of the two surfaces.                   *)
(***************************************************************************)
\* a second passes
Tick ==
    /\ clock < MaxClock
    /\ clock' = clock + 1
    /\ UNCHANGED <<program, webVars, files, mtime, cli, att, query, auxVars>>

(***************************************************************************)
(* Progress reporting: the hooks yt-dlp calls with a progress event.       *)
(***************************************************************************)

\* the largest byte count of an event, in chunks
MaxChunks == 2

MiB == 1024 * 1024

\* byte counts are whole chunks of half a MiB
Chunk == MiB \div 2

\* an optional field of the event dictionary: the key is absent, holds None
\* or holds a number
Absent == [k |-> "absent", v |-> 0]
PyNone == [k |-> "none", v |-> 0]
Num(n) == [k |-> "num", v |-> n]

ByteFields == {Absent, PyNone} \cup {Num(c * Chunk) : c \in 0..MaxChunks}
SpeedFields == {Absent, PyNone, Num(MiB)}
EtaFields == {Absent, PyNone, Num(90)}

DownloadingEvents ==
    [status : {"downloading"}, downloaded_bytes : ByteFields, total_bytes : ByteFields,
     total_bytes_estimate : ByteFields, speed : SpeedFields, eta : EtaFields]

FinishedEvent ==
    [status |-> "finished", downloaded_bytes |-> Absent, total_bytes |-> Absent,
     total_bytes_estimate |-> Absent, speed |-> Absent, eta |-> Absent]

\* a status value neither branch of the hook handles
ErrorEvent == [FinishedEvent EXCEPT !.status = "error"]

\* d.get(key): None for an absent key
Get(field) == IF field.k = "absent" THEN PyNone ELSE field

\* d.get(key, 0)
GetOr0(field) == IF field.k = "absent" THEN Num(0) ELSE field

\* truth value of None or a number
Truthy(x) == x.k = "num" /\ x.v # 0

\* x or y
PyOr(x, y) == IF Truthy(x) THEN x ELSE y

\* a / b rounded to the nearest whole number
RoundDiv(a, b) == (a \div b) + (IF 2 * (a % b) >= b THEN 1 ELSE 0)

\* f"{x:.1%}" of the ratio a / b: the number of tenths of a percent
PercentTenths(a, b) == RoundDiv(1000 * a, b)

\* f"{bytes / (1024 * 1024):.1f}": the number of tenths of a megabyte
MbTenths(bytes) == RoundDiv(10 * bytes, MiB)

\* f"{speed / (1024 * 1024):.2f} MB/s": the number of hundredths
SpeedHundredths(speed) == RoundDiv(100 * speed, MiB)

\* the five placeholders of the page, before the transfer starts
EmptyText == [kind |-> "empty", a |-> 0, b |-> 0, c |-> 0]
Text(kind, a, b, c) == [kind |-> kind, a |-> a, b |-> b, c |-> c]

InitialWidgets ==
    [progress_bar |-> [num |-> 0, den |-> 1], percent_text |-> EmptyText,
     status_text |-> EmptyText, file_size_text |-> EmptyText, eta_text |-> EmptyText]

\* the finished branch as a variant that leaves the bar and the percentage alone
finished_branch_status_only(w) ==
    [w EXCEPT !.status_text = Text("processing", 0, 0, 0),
              !.file_size_text = EmptyText,
              !.eta_text = EmptyText]

\* the 'finished' branch of streamlit_progress_hook
finished_branch(w) ==
    [w EXCEPT !.progress_bar = [num |-> 1, den |-> 1],
              !.percent_text = Text("100%", 0, 0, 0),
              !.status_text = Text("processing", 0, 0, 0),
              !.file_size_text = EmptyText,
              !.eta_text = EmptyText]

\* total_bytes = d.get('total_bytes') or d.get('total_bytes_estimate', 0)
TotalOf(d) == PyOr(Get(d.total_bytes), GetOr0(d.total_bytes_estimate))

\* the hook raises TypeError: None > 0, None / total_bytes, None / (1024 * 1024)
HookRaises(d) ==
    /\ d.status = "downloading"
    /\ \/ TotalOf(d).k = "none"
       \/ GetOr0(d.downloaded_bytes).k = "none"

\* the 'downloading' branch of streamlit_progress_hook, when it does not raise
downloading_branch(w, d) ==
    LET downloaded_bytes == GetOr0(d.downloaded_bytes).v
        total_bytes == TotalOf(d).v
        speed == GetOr0(d.speed)
        eta == GetOr0(d.eta)
        shown == IF total_bytes > 0
                 THEN [w EXCEPT !.progress_bar =
                                    IF downloaded_bytes < total_bytes
                                    THEN [num |-> downloaded_bytes, den |-> total_bytes]
                                    ELSE [num |-> 1, den |-> 1],
                                !.percent_text =
                                    Text("percent", PercentTenths(downloaded_bytes, total_bytes), 0, 0)]
                 ELSE w
    IN  [shown EXCEPT
            !.status_text = IF Truthy(speed)
                            THEN Text("downloading", SpeedHundredths(speed.v), 0, 0)
                            ELSE Text("downloading N/A", 0, 0, 0),
            !.file_size_text = IF total_bytes # 0
                               THEN Text("of", MbTenths(downloaded_bytes), MbTenths(total_bytes),
                                         PercentTenths(downloaded_bytes, total_bytes))
                               ELSE Text("unknown total", MbTenths(downloaded_bytes), 0, 0),
            !.eta_text = IF Truthy(eta)
                         THEN Text("eta", eta.v \div 60, eta.v % 60, 0)
                         ELSE Text("eta N/A", 0, 0, 0)]

\* streamlit_progress_hook(d): the widgets after the call
streamlit_progress_hook(w, d) ==
    IF d.status = "downloading" THEN downloading_branch(w, d)
    ELSE IF d.status = "finished" THEN finished_branch(w)
    ELSE w

\* yt_dlp_progress_hook of the command line: d.get(key, 'N/A') of the
\* preformatted strings; it prints and computes nothing
CliFields == {"absent", "None", " 50.0%"}
CliEvents == [status : {"downloading"}, percent : CliFields, speed : CliFields, eta : CliFields]
                \cup {[status |-> s, percent |-> "absent", speed |-> "absent", eta |-> "absent"] :
                        s \in {"finished", "error"}}
GetOrNA(field) == IF field = "absent" THEN "N/A" ELSE field
NoLine == [kind |-> "none", percent |-> "", speed |-> "", eta |-> ""]
yt_dlp_progress_hook(d) ==
    IF d.status = "downloading"
    THEN [kind |-> "progress", percent |-> GetOrNA(d.percent), speed |-> GetOrNA(d.speed),
          eta |-> GetOrNA(d.eta)]
    ELSE IF d.status = "finished"
    THEN [kind |-> "processing", percent |-> "", speed |-> "", eta |-> ""]
    ELSE NoLine

\* no transfer: the state of the progress flow in the other flows
NoCliEvent == [status |-> "error", percent |-> "absent", speed |-> "absent", eta |-> "absent"]
ProgressIdle ==
    [pc |-> "idle", hook |-> "app", widgets |-> InitialWidgets, at_finish |-> InitialWidgets,
     line |-> NoLine, event |-> ErrorEvent, cli_event |-> NoCliEvent, raised |-> "none"]


Init ==
    /\ program \in {"app", "cli"}
    /\ ss = ClearedState
    /\ url = NoUrl
    /\ force_download = FALSE
    /\ selected_format_idx = 0
    /\ prompt = NoPrompt
    /\ decided_for = NoTitle
    /\ files \in SUBSET PlainFiles
    /\ mtime = InitialMtimes(files)
    /\ clock = 0
    /\ cli = CliIdle
    /\ att = NoAttempt
    /\ query = QueryIdle
    /\ progress = ProgressIdle
    /\ main = MainIdle

Next ==
    \/ \E u \in URLs \cup {NoUrl} : ChangeUrl(u)
    \/ ToggleForce
    \/ \E i \in 0..(MaxRaw + 1) : SelectFormat(i)
    \/ OtherRerun
    \/ ClickDownload
    \/ \E choice \in Choices : ClickDecision(choice)
    \/ \E u \in URLs, format_arg \in CliFormatArgs, auto_best \in BOOLEAN, force \in BOOLEAN :
          CliStart(u, format_arg, auto_best, force)
    \/ \E line \in CliLines : CliSelect(line)
    \/ \E response \in Responses : CliAnswer(response)
    \/ Tick

Spec == Init /\ [][Next]_vars

(***************************************************************************)
(* The catalog and the selection on their own, over every list of raw      *)
(* descriptors up to MaxRaw and every typed line up to MaxInputLen.        *)
(***************************************************************************)
otherVars == <<program, ss, url, force_download, selected_format_idx, prompt,
               decided_for, files, mtime, clock, cli, att, auxVars>>

\* downloader.py lines 21-76: get_available_formats(url) is called
Fetch ==
    /\ query.pc = "start"
    /\ query' = [query EXCEPT !.pc = "fetched",
                              !.formats_info = get_available_formats(query.info)]
    /\ UNCHANGED otherVars

\* downloader.py lines 78-145: display_formats_and_select with the typed line
TypeSelection(line) ==
    /\ query.pc = "fetched"
    /\ query' = [query EXCEPT !.pc = "selected", !.surface = "cli", !.line = line,
                   !.format_id = display_formats_and_select(query.formats_info, line)]
    /\ UNCHANGED otherVars

\* app.py lines 74-76 and 155-172: the selectbox option picked on the page
PickOption(i) ==
    /\ query.pc = "fetched"
    /\ query.formats_info.ok
    /\ i \in SelectboxOptions(query.formats_info.formats)
    /\ query' = [query EXCEPT !.pc = "selected", !.surface = "app", !.idx = i,
                   !.format_id = AppFormatId(query.formats_info.formats, i)]
    /\ UNCHANGED otherVars

InitCatalog ==
    /\ program = "cli"
    /\ ss = ClearedState
    /\ url = NoUrl
    /\ force_download = FALSE
    /\ selected_format_idx = 0
    /\ prompt = NoPrompt
    /\ decided_for = NoTitle
    /\ files = {}
    /\ mtime = NoMtimes
    /\ clock = 0
    /\ cli = CliIdle
    /\ att = NoAttempt
    /\ \E info \in {ExtractFailure} \cup {Extracted(raw) : raw \in RawLists} :
          query = [QueryIdle EXCEPT !.pc = "start", !.info = info]
    /\ progress = ProgressIdle
    /\ main = MainIdle

NextCatalog ==
    \/ Fetch
    \/ \E line \in InputLines : TypeSelection(line)
    \/ \E i \in 0..(MaxRaw + 1) : PickOption(i)

SpecCatalog == InitCatalog /\ [][NextCatalog]_vars

(***************************************************************************)
(* The progress hooks on their own: one transfer, and the events yt-dlp    *)
(* sends to the hook of the surface that started it.                       *)
(***************************************************************************)
progressOther == <<program, ss, url, force_download, selected_format_idx, prompt,
                   decided_for, files, mtime, clock, cli, att, query, main>>

\* yt-dlp calls the hook of the page; an exception of the hook ends the transfer
AppHook(d) ==
    /\ progress.pc = "transfer"
    /\ progress.hook = "app"
    /\ progress' =
          IF HookRaises(d)
          THEN [progress EXCEPT !.pc = "raised", !.event = d, !.raised = "TypeError",
                                !.at_finish = InitialWidgets]
          ELSE [progress EXCEPT !.event = d,
                                !.widgets = streamlit_progress_hook(progress.widgets, d),
                                !.at_finish = IF d.status = "finished" THEN progress.widgets
                                              ELSE InitialWidgets]
    /\ UNCHANGED progressOther

\* yt-dlp calls the hook of the command line
CliHook(d) ==
    /\ progress.pc = "transfer"
    /\ progress.hook = "cli"
    /\ progress' = [progress EXCEPT !.cli_event = d, !.line = yt_dlp_progress_hook(d)]
    /\ UNCHANGED progressOther

InitProgress ==
    /\ program \in {"app", "cli"}
    /\ ss = ClearedState
    /\ url = NoUrl
    /\ force_download = FALSE
    /\ selected_format_idx = 0
    /\ prompt = NoPrompt
    /\ decided_for = NoTitle
    /\ files = {}
    /\ mtime = NoMtimes
    /\ clock = 0
    /\ cli = CliIdle
    /\ att = NoAttempt
    /\ query = QueryIdle
    /\ progress = [ProgressIdle EXCEPT !.pc = "transfer", !.hook = program]
    /\ main = MainIdle

NextProgress ==
    \/ \E d \in DownloadingEvents \cup {FinishedEvent, ErrorEvent} : AppHook(d)
    \/ \E d \in CliEvents : CliHook(d)

SpecProgress == InitProgress /\ [][NextProgress]_vars

(***************************************************************************)
(* One run of the command line: main() with its arguments.                 *)
(***************************************************************************)
\* lines 257-283: the arguments are parsed; without a URL main() returns
InitMain ==
    /\ program = "cli"
    /\ ss = ClearedState
    /\ url = NoUrl
    /\ force_download = FALSE
    /\ selected_format_idx = 0
    /\ prompt = NoPrompt
    /\ decided_for = NoTitle
    /\ files \in SUBSET PlainFiles
    /\ mtime = InitialMtimes(files)
    /\ clock = 0
    /\ cli = CliIdle
    /\ att = NoAttempt
    /\ query = QueryIdle
    /\ progress = ProgressIdle
    /\ \E urls \in UrlLists, format_arg \in CliFormatArgs, best \in BOOLEAN, force \in BOOLEAN :
          main = [MainIdle EXCEPT !.pc = IF urls = <<>> THEN "done" ELSE "loop",
                                  !.urls = urls, !.format = format_arg,
                                  !.best = best, !.force = force]

NextMain ==
    \/ MainCall
    \/ \E line \in CliLines : MainSelect(line)
    \/ \E response \in Responses : MainAnswer(response)
    \/ Tick

SpecMain == InitMain /\ [][NextMain]_vars

(***************************************************************************)
(* Properties of the catalog and of the selection (SpecCatalog).           *)
(***************************************************************************)
HasVideo(fmt) == fmt.has_video
AudioOnly(fmt) == fmt.has_audio /\ ~fmt.has_video
\* the video-capable and the audio-only entries of a catalog, in its order
VideoEntries(formats) == SelectSeq(formats, HasVideo)
AudioEntries(formats) == SelectSeq(formats, AudioOnly)

\* the selection the resolver is to make for index i over a catalog
ExpectedForIndex(formats, i) ==
    LET V == Len(VideoEntries(formats))
        A == Len(AudioEntries(formats))
    IN  IF 0 <= i /\ i < V THEN VideoEntries(formats)[i + 1].format_id
        ELSE IF V <= i /\ i < V + A THEN AudioEntries(formats)[(i - V) + 1].format_id
        ELSE IF i = V + A + 1 THEN BEST_AUDIO
        ELSE BEST_VIDEO

\* C8: the selection is total and deterministic: over a catalog with V
\* video and A audio entries, index i < V selects video entry i, V <= i < V+A
\* audio entry i-V, V+A "best combined", V+A+1 "best audio", and every other
\* input (negative, too large, non-numeric, blank) "best combined"; no
\* selection ends in an error or an out-of-range access.
C8_SelectionTotal ==
    (query.pc = "selected" /\ query.formats_info.ok) =>
        LET formats == query.formats_info.formats
            n == ParseInt(query.line)
        IN  /\ query.format_id # IndexError
            /\ query.format_id # NoFormat
            /\ query.surface = "app" => query.format_id = ExpectedForIndex(formats, query.idx)
            /\ (query.surface = "cli" /\ n.ok) =>
                   query.format_id = ExpectedForIndex(formats, n.value)
            /\ (query.surface = "cli" /\ ~n.ok) => query.format_id = BEST_VIDEO

\* C8 witness: with 2 video entries and 1 audio entry, the typed index 4
\* has selected "best audio"
C8_Witness ==
    /\ query.pc = "selected"
    /\ query.surface = "cli"
    /\ query.formats_info.ok
    /\ Len(VideoEntries(query.formats_info.formats)) = 2
    /\ Len(AudioEntries(query.formats_info.formats)) = 1
    /\ ParseInt(query.line) = [ok |-> TRUE, value |-> 4]
    /\ query.format_id = BEST_AUDIO

KindRank(kind) ==
    CASE kind = "video" -> 0 [] kind = "audio" -> 1 [] kind = "best" -> 2
      [] kind = "bestaudio" -> 3

\* C9: in the table shown for any catalog, the display indices are 0, 1, 2,
\* ... without gap or repetition, every video row comes before every audio
\* row, and the two synthesized rows "best" then "bestaudio" are the last two.
C9_DisplayOrder ==
    (query.pc # "start" /\ query.formats_info.ok) =>
        LET rows == DisplayRows(query.formats_info.formats)
            n == Len(rows)
        IN  /\ n = Len(query.formats_info.formats) + 2
            /\ \A k \in 1..n : rows[k].id = k - 1
            /\ \A j \in 1..n, k \in 1..n : j < k => KindRank(rows[j].kind) <= KindRank(rows[k].kind)
            /\ rows[n - 1].kind = "best"
            /\ rows[n].kind = "bestaudio"
            /\ \A k \in 1..(n - 2) : rows[k].kind \in {"video", "audio"}

\* C9 witness: a catalog built from a list in which an audio-only
\* descriptor comes before a video one, and one descriptor was filtered out
C9_Witness ==
    /\ query.pc = "fetched"
    /\ query.formats_info.ok
    /\ Len(query.info.formats) = 3
    /\ Len(query.formats_info.formats) = 2
    /\ ~query.formats_info.formats[1].has_video
    /\ query.formats_info.formats[2].has_video

\* the positions of the raw list that have a video or an audio track
RECURSIVE PositionsWithTrack(_, _)
PositionsWithTrack(raw, i) ==
    IF i > Len(raw) THEN <<>>
    ELSE IF raw[i].vcodec # "none" \/ raw[i].acodec # "none"
         THEN <<i>> \o PositionsWithTrack(raw, i + 1)
         ELSE PositionsWithTrack(raw, i + 1)

\* C10: the catalog keeps exactly the descriptors that have a video or an
\* audio track, in the order of the raw list: one with video as
\* video-capable, one with audio and no video as audio-only, whatever its
\* container.
C10_KeepsEveryTrack ==
    (query.pc # "start" /\ query.formats_info.ok) =>
        LET raw == query.info.formats
            formats == query.formats_info.formats
            kept == PositionsWithTrack(raw, 1)
        IN  /\ Len(formats) = Len(kept)
            /\ \A k \in 1..Len(formats) :
                  /\ formats[k].src = kept[k]
                  /\ formats[k].has_video = (raw[kept[k]].vcodec # "none")
                  /\ formats[k].has_audio = (raw[kept[k]].acodec # "none")

(***************************************************************************)
(* Properties of the collision handling (Spec).                            *)
(***************************************************************************)
\* the last step was a call of download_with_streamlit
WebAttempt == att.event = "web_download"
\* the last step was the part of download_with_yt_dlp that checks the file
CliAttempt == att.event \in {"cli_start", "cli_select"} /\ att.outcome # "select"
\* the attempt got as far as the existence check
Checked == att.outcome # "error"

\* C1: a decision kept in session state is never applied to a download of
\* another target: a download attempt finds file_decision_made set only if
\* the decision was clicked for its own target, and the decision state is
\* cleared whenever an attempt commits (skip or download).
C1_NoStaleDecision ==
    /\ (WebAttempt /\ Checked /\ att.made) => att.pending_for = att.title
    /\ (WebAttempt /\ att.outcome \in {"skip", "download"}) => ss = ClearedState

\* C2: with the target file present and force = false, an attempt shows the
\* three choices and starts no download; each choice is then resolved to its
\* decision (re-download: overwrite, new name: stamped base name, skip: no
\* download) and the decision state is cleared.
C2_AsksThenResolves ==
    /\ ((WebAttempt \/ CliAttempt) /\ Checked /\ att.mp4 /\ ~att.force) =>
           (att.outcome = "prompt" /\ ~att.started)
    /\ att.event = "cli_answer" =>
           /\ cli.pc = "idle"
           /\ att.decision = "y" => (att.started /\ att.overwrites /\ att.base.ts = NoTs)
           /\ att.decision = "r" => (att.started /\ att.base.ts # NoTs)
           /\ att.decision = "n" => (att.outcome = "skip" /\ ~att.started)
    /\ (WebAttempt /\ att.outcome \in {"skip", "download"}) => ss = ClearedState

\* C3: with a candidate file present and force = true, an attempt always
\* calls the download with the overwrite option set and the original base
\* name: no prompt, no skip, no rename, whatever the session state was.
C3_ForceOverwrites ==
    ((WebAttempt \/ CliAttempt) /\ Checked /\ (att.mp4 \/ att.mp3) /\ att.force) =>
        /\ att.outcome = "download"
        /\ att.started
        /\ att.overwrites
        /\ att.base = BaseName(att.title)

\* C4: with no candidate file present, an attempt calls the download with
\* the original base name, without a prompt and with the overwrite option
\* not set, whether force is false or true.
C4_AbsentProceedsWithoutOverwrite ==
    ((WebAttempt \/ CliAttempt) /\ Checked /\ ~att.mp4 /\ ~att.mp3) =>
        /\ att.outcome = "download"
        /\ att.started
        /\ ~att.overwrites
        /\ att.base = BaseName(att.title)

\* the attempt had Skip as its decision: the skip button's decision was in
\* session state, or the answer at the command line was neither y nor r
SkipChosen ==
    \/ WebAttempt /\ Checked /\ att.made /\ att.decision = "skip"
    \/ att.event = "cli_answer" /\ att.decision \notin {"y", "r"}

\* C5: when the decision is Skip, the attempt ends without calling the
\* download and reports a skip, not an error: download_with_yt_dlp returns
\* True; download_with_streamlit returns with the decision state cleared.
C5_SkipNeverDownloads ==
    SkipChosen =>
        /\ att.outcome = "skip"
        /\ ~att.started
        /\ WebAttempt => (att.ret = "skipped" /\ ss = ClearedState /\ ~prompt.shown)
        /\ att.event = "cli_answer" => (att.ret = "True" /\ cli.pc = "idle")

\* C5 witness: the page has skipped a download whose skip button was clicked
C5_Witness ==
    /\ WebAttempt
    /\ att.made
    /\ att.decision = "skip"
    /\ att.pending_for = att.title
    /\ att.outcome = "skip"

\* C6: the script run started by a click on a decision button consumes the
\* decision: after it the decision state is cleared again, without another
\* click on Download.
C6_DecisionConsumedOnClick ==
    att.event = "decide" => (ss = ClearedState /\ decided_for = NoTitle)

\* C7: the existence check covers <title>.mp4 and, for an mp3 extraction,
\* <title>.mp3: with force = false and no decision made, an attempt whose
\* candidate file is present asks instead of starting a download.
C7_ChecksEveryCandidate ==
    ((WebAttempt \/ CliAttempt) /\ Checked /\ ~att.force /\ ~att.made
       /\ (att.mp4 \/ (IsMp3Request(att.format_id) /\ att.mp3))) =>
        (att.outcome = "prompt" /\ ~att.started)


(***************************************************************************)
(* Properties of the progress hooks (SpecProgress).                        *)
(***************************************************************************)
TotalUnknown(d) == ~Truthy(TotalOf(d))

\* C11: the progress hook never raises on a 'downloading' event, whichever
\* of total_bytes, total_bytes_estimate, downloaded_bytes, speed and eta are
\* absent or None, and when the total is unknown the size line shows the
\* byte count only, with no percentage.
C11_HookNeverRaises ==
    /\ progress.raised = "none"
    /\ (progress.hook = "app" /\ progress.event.status = "downloading"
            /\ TotalUnknown(progress.event))
          => progress.widgets.file_size_text.kind = "unknown total"

\* C12: after a 'finished' event the page shows exactly 100% (the bar is
\* full and the percentage text is the literal 100%) and the status line is
\* the 'processing' one, whatever the earlier 'downloading' events showed.
C12_FinishedShowsHundred ==
    (progress.hook = "app" /\ progress.event.status = "finished")
        => /\ progress.widgets.progress_bar = [num |-> 1, den |-> 1]
           /\ progress.widgets.percent_text = Text("100%", 0, 0, 0)
           /\ progress.widgets.status_text = Text("processing", 0, 0, 0)

\* a 'finished' event arrived while the page showed a percentage above 100%
C12_Witness ==
    /\ progress.hook = "app"
    /\ progress.event.status = "finished"
    /\ progress.at_finish.percent_text.kind = "percent"
    /\ progress.at_finish.percent_text.a > 1000
    /\ progress.widgets.percent_text.kind = "100%"

(***************************************************************************)
(* The stamped name and the existing file (Spec).                          *)
(***************************************************************************)
\* a finished download of an mp4 under a new name: Title.mp4 was there,
\* force was off and the user chose 'new name' (the page) or answered 'r'
\* (the command line)
NewNameDownload ==
    /\ att.outcome = "download"
    /\ att.ret \in {"done", "True"}
    /\ att.format_id = BEST_VIDEO
    /\ att.mp4
    /\ ~att.force
    /\ \/ WebAttempt /\ att.made /\ att.decision = "new_name"
       \/ att.event = "cli_answer" /\ att.decision = "r"

\* C13: when Title.mp4 exists, force is off and the user picks 'new name',
\* the download goes to Title_<timestamp> where the timestamp is strictly
\* greater than the modification time of the existing Title.mp4, also when
\* that file was written in the same second.
C13_StampAfterMtime ==
    NewNameDownload
        => /\ att.base.title = att.title
           /\ att.base.ts > mtime[File(BaseName(att.title), "mp4")]

(***************************************************************************)
(* Properties of the loop of main() (SpecMain).                            *)
(***************************************************************************)
Successes(returns) == Cardinality({k \in 1..Len(returns) : returns[k] = "True"})

\* C14: nothing is retried.  In one run of the command line the URLs are
\* processed once each and in order, the download is invoked at most once
\* for a URL, a failed URL neither stops nor repeats the others, and the
\* success count, also the one reported, is the number of URLs whose call
\* returned True, between 0 and the number of URLs.
C14_EachUrlOnce ==
    /\ Len(main.processed) <= Len(main.urls)
    /\ main.processed = SubSeq(main.urls, 1, Len(main.processed))
    /\ Len(main.downloads) = Len(main.processed)
    /\ \A k \in 1..Len(main.downloads) : main.downloads[k] <= 1
    /\ Len(main.returns) = main.i - 1
    /\ Len(main.processed) \in {Len(main.returns), Len(main.returns) + 1}
    /\ main.success_count = Successes(main.returns)
    /\ main.success_count \in 0..Len(main.urls)
    /\ main.pc = "done"
          => /\ main.processed = main.urls
             /\ Len(main.returns) = Len(main.urls)
             /\ main.report.shown = (Len(main.urls) > 1)
             /\ main.report.shown
                   => /\ main.report.success_count = Successes(main.returns)
                      /\ main.report.of = Len(main.urls)

\* a run over two URLs in which the first call failed and the second
\* succeeded: the report counts one of two
C14_Witness ==
    /\ main.pc = "done"
    /\ main.returns = <<"False", "True">>
    /\ main.downloads = <<1, 1>>
    /\ main.report = [shown |-> TRUE, success_count |-> 1, of |-> 2]

(***************************************************************************)
(* The decision fields of the session state (Spec).                        *)
(***************************************************************************)
DecisionPending == ss.file_decision_made

\* the three fields agree with each other
DecisionFieldsAgree ==
    /\ ss.file_decision_made <=> ss.file_decision \in Choices
    /\ ~ss.file_decision_made => ss.file_decision = "None"
    /\ ss.new_filename # NoName => ss.file_decision = "new_name"
    /\ prompt.shown => ~DecisionPending

\* a pending decision stays as it is until it is cleared
PendingOnlyCleared ==
    DecisionPending => (ss' = ss \/ ss' = ClearedState)

\* C15: between script runs file_decision_made is True exactly when
\* file_decision is one of 'redownload', 'new_name', 'skip' (and it is None
\* otherwise), new_filename is set only when file_decision is 'new_name',
\* and a pending decision is never replaced by a second one before it is
\* consumed: the buttons are not drawn while one is pending.
C15_DecisionStateConsistent ==
    [](DecisionFieldsAgree) /\ [][PendingOnlyCleared]_vars

\* a 'new name' decision is pending between two script runs
C15_Witness ==
    /\ att.event = "decide"
    /\ ss.file_decision_made
    /\ ss.file_decision = "new_name"
    /\ ss.new_filename # NoName
    /\ ~prompt.shown

====
